---- MODULE Spec2Model ----
(***************************************************************************)
(* SpeakSmart-AI browser client: static/app.js and static/script.js.       *)
(*                                                                         *)
(* Both pages are event-driven: every handler runs to its first await (or  *)
(* to its end) as one step of the event loop, and the continuation after   *)
(* an await is a later step of its own.  The browser (recognition engine,  *)
(* getUserMedia, MediaRecorder, fetch) is the environment: it delivers     *)
(* clicks, recognition events, device data and network completions in any  *)
(* order the event loop allows.                                            *)
(*                                                                         *)
(* Text is a sequence of characters; the characters used are "a" and the   *)
(* blank " ".                                                              *)
(***************************************************************************)
EXTENDS Integers, Sequences, FiniteSets, TLC

\* ---------------------------------------------------------------- bounds
MaxInputs      == 5  \* clicks and recognition events in one run
MaxResults     == 2  \* length of event.results
MaxReconInputs == 2  \* clicks and recognition events in one run of ReconSpec

VARIABLES
    page,           \* which script the page loaded: "app" or "script"
    supported,      \* the browser has (webkit)SpeechRecognition
    recognition,    \* engine state: "idle", "started", "stopping"
    \* app.js
    mediaRecorder,  \* 0 = undefined, else the index of the recorder it names
    audioChunks,    \* the global chunk array
    recorders,      \* every MediaRecorder created so far
    pendingMedia,   \* getUserMedia promises not yet settled
    emotions,       \* POST /emotion requests, in issue order
    speechText,     \* #speechText textContent
    correctedText,  \* #correctedText textContent, as a sequence of parts
    \* script.js
    recognizing,    \* the recognizing flag
    engineCalls,    \* script.js: the calls made to recognition, in order
    original,       \* #original innerText
    corrected,      \* #corrected innerHTML: 0 = initial, i = response i
    confidence,     \* #confidence innerText: 0 = initial, i = response i
    \* both
    corrections,    \* POST /correct or /process_text requests, in issue order
    \* bookkeeping of the run
    inputs,         \* inputs delivered so far
    lastEvent       \* the recognition event handled last

vars == <<page, supported, recognition, mediaRecorder, audioChunks, recorders,
          pendingMedia, emotions, speechText, correctedText, recognizing,
          engineCalls, original, corrected, confidence, corrections, inputs,
          lastEvent>>

appVars    == <<mediaRecorder, audioChunks, recorders, pendingMedia, emotions,
                speechText, correctedText>>
scriptVars == <<recognizing, engineCalls, original, corrected, confidence>>
captureVars == <<mediaRecorder, audioChunks, recorders, pendingMedia, emotions>>

\* ------------------------------------------------------------------ text
Blank == " "

Transcripts == {<<>>, <<"a">>, <<Blank>>}

RecognitionResult == [isFinal : BOOLEAN, transcript : Transcripts]

ResultLists == UNION {[1..n -> RecognitionResult] : n \in 0..MaxResults}

Events == UNION {[resultIndex : 0..Len(rs), results : {rs}] : rs \in ResultLists}

\* The events of at most one result, all of it in range.
ShortEvents == {ev \in Events : Len(ev.results) <= 1 /\ ev.resultIndex = 0}

NoEvent == [resultIndex |-> 0 - 1, results |-> <<>>]

\* String.prototype.trim: leading and trailing white space removed.
RECURSIVE TrimStart(_)
TrimStart(s) ==
    IF s # <<>> /\ Head(s) = Blank THEN TrimStart(Tail(s)) ELSE s

RECURSIVE TrimEnd(_)
TrimEnd(s) ==
    IF s # <<>> /\ s[Len(s)] = Blank THEN TrimEnd(SubSeq(s, 1, Len(s) - 1)) ELSE s

Trim(s) == TrimEnd(TrimStart(s))

\* app.js: for (i = resultIndex; i < results.length; i++) transcript += ...
RECURSIVE AppLoop(_, _, _)
AppLoop(ev, i, transcript) ==
    IF i < Len(ev.results)
    THEN AppLoop(ev, i + 1, transcript \o ev.results[i + 1].transcript)
    ELSE transcript

\* The loop started at 0 instead of event.resultIndex.
AppTranscriptFromZero(ev) == AppLoop(ev, 0, <<>>)

AppTranscript(ev) == AppLoop(ev, ev.resultIndex, <<>>)

\* script.js: the loop that fills final_transcript and interim_transcript;
\* acc = <<final_transcript, interim_transcript>>.
RECURSIVE ScriptLoop(_, _, _)
ScriptLoop(ev, i, acc) ==
    IF i < Len(ev.results)
    THEN IF ev.results[i + 1].isFinal
         THEN ScriptLoop(ev, i + 1, <<acc[1] \o ev.results[i + 1].transcript, acc[2]>>)
         ELSE ScriptLoop(ev, i + 1, <<acc[1], acc[2] \o ev.results[i + 1].transcript>>)
    ELSE acc

\* display_text = final_transcript || interim_transcript ("" is falsy)
ScriptDisplayText(ev) ==
    LET acc == ScriptLoop(ev, ev.resultIndex, <<<<>>, <<>>>>)
    IN  IF acc[1] # <<>> THEN acc[1] ELSE acc[2]

\* ------------------------------------------------------------------ init
Init ==
    /\ page \in {"app", "script"}
    /\ supported \in BOOLEAN
    /\ recognition = "idle"
    /\ mediaRecorder = 0
    /\ audioChunks = <<>>
    /\ recorders = <<>>
    /\ pendingMedia = 0
    /\ emotions = <<>>
    /\ speechText = <<>>
    /\ correctedText = <<>>
    /\ recognizing = FALSE
    /\ engineCalls = <<>>
    /\ original = <<>>
    /\ corrected = 0
    /\ confidence = 0
    /\ corrections = <<>>
    /\ inputs = 0
    /\ lastEvent = NoEvent


\* ------------------------------------------------- recognition (both pages)
\* The engine ends a session: after stop(), or by itself (an error, silence).
RecognitionEnd ==
    /\ recognition # "idle"
    /\ recognition' = "idle"
    /\ UNCHANGED <<page, supported, appVars, scriptVars, corrections, inputs, lastEvent>>

\* A part of #correctedText: what was written and for which request/recorder.
Part(kind, id) == [kind |-> kind, id |-> id]

\* ---------------------------------------------------------------- app.js
\* recognition.onresult, up to the await of fetch("/correct").
AppOnResult(ev) ==
    /\ page = "app" /\ supported
    /\ recognition # "idle"
    /\ inputs < MaxInputs
    /\ LET transcript == AppTranscript(ev)
       IN  /\ speechText' = transcript
           /\ corrections' =
                IF Len(Trim(transcript)) > 0
                THEN Append(corrections, [text |-> transcript, state |-> "inflight"])
                ELSE corrections
    /\ inputs' = inputs + 1
    /\ lastEvent' = ev
    /\ UNCHANGED <<page, supported, recognition, captureVars, correctedText,
                   scriptVars>>

\* The continuation of onresult writing the element of the transcript.
AppCorrectDoneWrongField(i, ok) ==
    /\ page = "app"
    /\ corrections[i].state = "inflight"
    /\ corrections' = [corrections EXCEPT ![i].state = IF ok THEN "ok" ELSE "failed"]
    /\ speechText' = IF ok THEN corrections[i].text ELSE <<>>
    /\ UNCHANGED <<page, supported, recognition, captureVars, correctedText,
                   scriptVars, inputs, lastEvent>>

\* recognition.onresult after the awaits: the response was parsed (ok) or
\* fetch / response.json() threw.
AppCorrectDone(i, ok) ==
    /\ page = "app"
    /\ corrections[i].state = "inflight"
    /\ corrections' = [corrections EXCEPT ![i].state = IF ok THEN "ok" ELSE "failed"]
    /\ correctedText' = IF ok THEN <<Part("corrected", i)>>
                              ELSE <<Part("grammarError", i)>>
    /\ UNCHANGED <<page, supported, recognition, captureVars, speechText,
                   scriptVars, inputs, lastEvent>>

\* startBtn.onclick up to the await of getUserMedia.  recognition.start()
\* throws InvalidStateError while the engine has not ended, and the handler
\* ends there.  Without SpeechRecognition no handler is installed.
AppStartClick ==
    /\ page = "app"
    /\ inputs < MaxInputs
    /\ inputs' = inputs + 1
    /\ IF supported /\ recognition = "idle"
       THEN /\ recognition' = "started"
            /\ pendingMedia' = pendingMedia + 1
       ELSE UNCHANGED <<recognition, pendingMedia>>
    /\ UNCHANGED <<page, supported, mediaRecorder, audioChunks, recorders,
                   emotions, speechText, correctedText, scriptVars, corrections, lastEvent>>

\* startBtn.onclick after getUserMedia resolved: a new recorder is created,
\* the chunk array is reset, the handlers are set and recording starts.
AppMediaResolved ==
    /\ page = "app"
    /\ pendingMedia > 0
    /\ pendingMedia' = pendingMedia - 1
    /\ recorders' = Append(recorders,
                           [state |-> "recording", stopQueued |-> FALSE,
                            delivered |-> <<>>])
    /\ mediaRecorder' = Len(recorders) + 1
    /\ audioChunks' = <<>>
    /\ UNCHANGED <<page, supported, recognition, emotions, speechText,
                   correctedText, scriptVars, corrections, inputs, lastEvent>>

\* getUserMedia rejected: the handler's promise rejects, nothing else runs.
AppMediaRejected ==
    /\ page = "app"
    /\ pendingMedia > 0
    /\ pendingMedia' = pendingMedia - 1
    /\ UNCHANGED <<page, supported, recognition, mediaRecorder, audioChunks,
                   recorders, emotions, speechText, correctedText, scriptVars,
                   corrections, inputs, lastEvent>>

Chunk(r, k) == <<r, k>>

\* mediaRecorder.ondataavailable of recorder r.
OnDataAvailable(r, chunks) == Append(chunks, Chunk(r, Len(recorders[r].delivered) + 1))

Delivered(r) ==
    [recorders EXCEPT ![r].delivered = Append(@, Chunk(r, Len(@) + 1))]

\* mediaRecorder.stop() as called by stopBtn.onclick: TypeError when
\* mediaRecorder is undefined; nothing (or InvalidStateError) when the
\* recorder is inactive; else the recorder turns inactive and queues the
\* task that fires dataavailable and stop.
MediaRecorderStop ==
    IF mediaRecorder # 0 /\ recorders[mediaRecorder].state = "recording"
    THEN [recorders EXCEPT ![mediaRecorder].state = "inactive",
                           ![mediaRecorder].stopQueued = TRUE]
    ELSE recorders

\* stopBtn.onclick that also empties the chunk array.
AppStopClickClearing ==
    /\ page = "app"
    /\ inputs < MaxInputs
    /\ inputs' = inputs + 1
    /\ IF supported
       THEN /\ recognition' = IF recognition = "started" THEN "stopping"
                                                         ELSE recognition
            /\ recorders' = MediaRecorderStop
            /\ audioChunks' = <<>>
       ELSE UNCHANGED <<recognition, recorders, audioChunks>>
    /\ UNCHANGED <<page, supported, mediaRecorder, pendingMedia,
                   emotions, speechText, correctedText, scriptVars, corrections,
                   lastEvent>>

\* stopBtn.onclick.
AppStopClick ==
    /\ page = "app"
    /\ inputs < MaxInputs
    /\ inputs' = inputs + 1
    /\ IF supported
       THEN /\ recognition' = IF recognition = "started" THEN "stopping"
                                                         ELSE recognition
            /\ recorders' = MediaRecorderStop
       ELSE UNCHANGED <<recognition, recorders>>
    /\ UNCHANGED <<page, supported, mediaRecorder, audioChunks, pendingMedia,
                   emotions, speechText, correctedText, scriptVars, corrections, lastEvent>>

\* OnStop with a submission guard: nothing is posted while an earlier
\* analysis request is in flight.
OnStopUnlessBusy(r, chunks) ==
    IF \E i \in DOMAIN emotions : emotions[i].state = "inflight"
    THEN emotions
    ELSE Append(emotions, [recorder |-> r, blob |-> chunks, state |-> "inflight"])

\* mediaRecorder.onstop up to the await of fetch("/emotion"): the requests
\* after the one that posts new Blob(chunks).
OnStop(r, chunks) == Append(emotions, [recorder |-> r, blob |-> chunks, state |-> "inflight"])

\* The task queued by stop(): dataavailable, then stop.  start() is called
\* without a timeslice, so this is the recorder's one delivery.
AppStopTask(r) ==
    /\ page = "app"
    /\ recorders[r].stopQueued
    /\ LET chunks == OnDataAvailable(r, audioChunks)
       IN  /\ audioChunks' = chunks
           /\ emotions' = OnStop(r, chunks)
    /\ recorders' = [Delivered(r) EXCEPT ![r].stopQueued = FALSE]
    /\ UNCHANGED <<page, supported, recognition, mediaRecorder, pendingMedia,
                   speechText, correctedText, scriptVars, corrections, inputs, lastEvent>>

\* The continuation of onstop with = in place of +=.
AppEmotionDoneAssigning(i, ok) ==
    /\ page = "app"
    /\ emotions[i].state = "inflight"
    /\ emotions' = [emotions EXCEPT ![i].state = IF ok THEN "ok" ELSE "failed"]
    /\ correctedText' =
         <<IF ok THEN Part("emotion", emotions[i].recorder)
                 ELSE Part("emotionFailed", emotions[i].recorder)>>
    /\ audioChunks' = <<>>
    /\ UNCHANGED <<page, supported, recognition, mediaRecorder, recorders,
                   pendingMedia, speechText, scriptVars, corrections, inputs, lastEvent>>

\* mediaRecorder.onstop after the awaits: the label or the failure text is
\* appended, then the chunk array is reset.
AppEmotionDone(i, ok) ==
    /\ page = "app"
    /\ emotions[i].state = "inflight"
    /\ emotions' = [emotions EXCEPT ![i].state = IF ok THEN "ok" ELSE "failed"]
    /\ correctedText' =
         Append(correctedText,
                IF ok THEN Part("emotion", emotions[i].recorder)
                      ELSE Part("emotionFailed", emotions[i].recorder))
    /\ audioChunks' = <<>>
    /\ UNCHANGED <<page, supported, recognition, mediaRecorder, recorders,
                   pendingMedia, speechText, scriptVars, corrections, inputs, lastEvent>>

\* ------------------------------------------------------------- script.js
\* recognition.onresult: the request is sent for every event.
ScriptOnResult(ev) ==
    /\ page = "script" /\ supported
    /\ recognition # "idle"
    /\ inputs < MaxInputs
    /\ LET display_text == ScriptDisplayText(ev)
       IN  /\ original' = display_text
           /\ corrections' = Append(corrections,
                                    [text |-> display_text, state |-> "inflight"])
    /\ inputs' = inputs + 1
    /\ lastEvent' = ev
    /\ UNCHANGED <<page, supported, recognition, appVars, recognizing,
                   engineCalls, corrected, confidence>>

\* The .then chain with the confidence written only for the newest request.
ScriptCorrectDoneNewestConfidence(i, ok) ==
    /\ page = "script"
    /\ corrections[i].state = "inflight"
    /\ corrections' = [corrections EXCEPT ![i].state = IF ok THEN "ok" ELSE "failed"]
    /\ IF ok
       THEN /\ corrected' = i
            /\ confidence' = IF i = Len(corrections) THEN i ELSE confidence
       ELSE UNCHANGED <<corrected, confidence>>
    /\ UNCHANGED <<page, supported, recognition, appVars, recognizing,
                   engineCalls, original, inputs, lastEvent>>

\* The .then chain: on success both fields are written in one callback; a
\* rejection has no handler.
ScriptCorrectDone(i, ok) ==
    /\ page = "script"
    /\ corrections[i].state = "inflight"
    /\ corrections' = [corrections EXCEPT ![i].state = IF ok THEN "ok" ELSE "failed"]
    /\ IF ok
       THEN corrected' = i /\ confidence' = i
       ELSE UNCHANGED <<corrected, confidence>>
    /\ UNCHANGED <<page, supported, recognition, appVars, recognizing,
                   engineCalls, original, inputs, lastEvent>>

\* recognition.start() as the engine in state engine takes it: it throws
\* InvalidStateError unless the last session has ended.
Start(engine) == IF engine = "idle" THEN "start" ELSE "start threw"

\* startBtn.onclick with the two statements swapped: the flag is set before
\* recognition.start() can throw.
ScriptStartClickFlagFirst ==
    /\ page = "script"
    /\ inputs < MaxInputs
    /\ inputs' = inputs + 1
    /\ IF ~recognizing
       THEN /\ recognizing' = TRUE
            /\ engineCalls' = IF supported
                              THEN Append(engineCalls, Start(recognition))
                              ELSE engineCalls
            /\ recognition' = IF supported /\ recognition = "idle" THEN "started"
                                                                   ELSE recognition
       ELSE UNCHANGED <<recognition, recognizing, engineCalls>>
    /\ UNCHANGED <<page, supported, appVars, original, corrected, confidence,
                   corrections, lastEvent>>

\* startBtn.onclick: recognition.start() throws (TypeError when recognition
\* is undefined, InvalidStateError when the engine has not ended) before
\* recognizing is set.
ScriptStartClick ==
    /\ page = "script"
    /\ inputs < MaxInputs
    /\ inputs' = inputs + 1
    /\ IF ~recognizing /\ supported
       THEN /\ engineCalls' = Append(engineCalls, Start(recognition))
            /\ IF recognition = "idle"
               THEN recognition' = "started" /\ recognizing' = TRUE
               ELSE UNCHANGED <<recognition, recognizing>>
       ELSE UNCHANGED <<recognition, recognizing, engineCalls>>
    /\ UNCHANGED <<page, supported, appVars, original, corrected, confidence,
                   corrections, lastEvent>>

\* stopBtn.onclick without the test of recognizing.
ScriptStopClickUnguarded ==
    /\ page = "script"
    /\ inputs < MaxInputs
    /\ inputs' = inputs + 1
    /\ IF supported
       THEN /\ engineCalls' = Append(engineCalls, "stop")
            /\ recognition' = IF recognition = "started" THEN "stopping"
                                                         ELSE recognition
            /\ recognizing' = FALSE
       ELSE UNCHANGED <<recognition, recognizing, engineCalls>>
    /\ UNCHANGED <<page, supported, appVars, original, corrected, confidence,
                   corrections, lastEvent>>

\* stopBtn.onclick.
ScriptStopClick ==
    /\ page = "script"
    /\ inputs < MaxInputs
    /\ inputs' = inputs + 1
    /\ IF recognizing
       THEN /\ engineCalls' = Append(engineCalls, "stop")
            /\ recognition' = IF recognition = "started" THEN "stopping"
                                                         ELSE recognition
            /\ recognizing' = FALSE
       ELSE UNCHANGED <<recognition, recognizing, engineCalls>>
    /\ UNCHANGED <<page, supported, appVars, original, corrected, confidence,
                   corrections, lastEvent>>

\* ------------------------------------------------------- specifications
StartClick == AppStartClick \/ ScriptStartClick

StopClick == AppStopClick \/ ScriptStopClick

OnResult(ev) == AppOnResult(ev) \/ ScriptOnResult(ev)

Result == \E ev \in ShortEvents : OnResult(ev)

CorrectDone == \E i \in DOMAIN corrections, ok \in BOOLEAN :
                   AppCorrectDone(i, ok) \/ ScriptCorrectDone(i, ok)

MediaResolved == AppMediaResolved

MediaRejected == AppMediaRejected

StopTask == \E r \in DOMAIN recorders : AppStopTask(r)

EmotionDone == \E i \in DOMAIN emotions, ok \in BOOLEAN : AppEmotionDone(i, ok)

Next ==
    \/ StartClick
    \/ StopClick
    \/ RecognitionEnd
    \/ Result
    \/ CorrectDone
    \/ MediaResolved
    \/ MediaRejected
    \/ StopTask
    \/ EmotionDone

Spec == Init /\ [][Next]_vars

\* The recognition pipeline alone, with every event of Events: device
\* acquisition stays pending.
ReconResult == \E ev \in Events : OnResult(ev)

ReconNext ==
    \/ inputs < MaxReconInputs /\ StartClick
    \/ inputs < MaxReconInputs /\ StopClick
    \/ inputs < MaxReconInputs /\ ReconResult
    \/ RecognitionEnd
    \/ CorrectDone

ReconSpec == Init /\ [][ReconNext]_vars


\* ---------------------------------------------------------------- claims
Recording(r) == recorders[r].state = "recording"

\* The stop event of recorder r was delivered.
Stopped(r) == recorders[r].state = "inactive" /\ ~recorders[r].stopQueued

EmotionsFor(r) == {i \in DOMAIN emotions : emotions[i].recorder = r}

\* The correction request whose response the corrected field shows, 0 if none.
ShownCorrection ==
    IF page = "script" THEN corrected
    ELSE IF correctedText # <<>> /\ correctedText[1].kind = "corrected"
         THEN correctedText[1].id
         ELSE 0

OriginalField == IF page = "script" THEN original ELSE speechText

\* C1: while the corrected field shows the response to request k, no response
\* to a request issued after k has been applied (a response is applied only
\* if no response to a later request was applied before it).
C1_NoStaleOverwrite ==
    \A j \in DOMAIN corrections :
        (ShownCorrection # 0 /\ j > ShownCorrection) => corrections[j].state # "ok"

\* C2: a capture session whose stop event was delivered has exactly one
\* analysis request, and a session not yet stopped has none.
C2_OneAnalysisPerSession ==
    \A r \in DOMAIN recorders :
        Cardinality(EmotionsFor(r)) = IF Stopped(r) THEN 1 ELSE 0

\* Two sessions were recorded and stopped, each with its one request.
C2_Witness ==
    /\ Len(recorders) = 2
    /\ \A r \in DOMAIN recorders : Stopped(r) /\ Cardinality(EmotionsFor(r)) = 1

\* C3: the blob posted for a session holds exactly the chunks its recorder
\* delivered, in delivery order.
C3_BlobIsSessionChunks ==
    \A i \in DOMAIN emotions :
        emotions[i].blob = recorders[emotions[i].recorder].delivered

NoSessionRecording ==
    IF page = "app" THEN \A r \in DOMAIN recorders : ~Recording(r)
                    ELSE ~recognizing

\* C4: a stop click while no session is recording issues no analysis request
\* and leaves the capture state and every UI field as they were (in
\* script.js, where the session is the recognizing flag: the flag and the
\* engine as well).
C4_StopWhenNotRecording ==
    [][(StopClick /\ NoSessionRecording) =>
           /\ UNCHANGED <<captureVars, speechText, correctedText, original,
                          corrected, confidence, corrections>>
           /\ page = "script" => UNCHANGED <<recognizing, recognition>>]_vars

\* Stop was clicked before any recorder existed (the engine is stopping, which
\* only a stop click causes), and nothing was recorded or posted.
C4_Witness ==
    /\ page = "app"
    /\ recognition = "stopping"
    /\ recorders = <<>>
    /\ pendingMedia = 1
    /\ emotions = <<>>

\* C5: at most one capture session is recording.
C5_OneRecording ==
    Cardinality({r \in DOMAIN recorders : Recording(r)}) <= 1


\* The entries of an event that are in range.
InRange(ev) == (ev.resultIndex + 1)..Len(ev.results)

HasFinal(ev) == \E i \in InRange(ev) : ev.results[i].isFinal

\* The transcripts of the entries i, i+1, ... of rs whose isFinal is final,
\* concatenated in array order.
RECURSIVE JoinFrom(_, _, _)
JoinFrom(rs, i, final) ==
    IF i > Len(rs) THEN <<>>
    ELSE (IF rs[i].isFinal = final THEN rs[i].transcript ELSE <<>>)
             \o JoinFrom(rs, i + 1, final)

Handled == lastEvent # NoEvent

\* C6: after an event with a final entry in range, the original field is the
\* concatenation of the final entries in range, interim entries ignored.
C6_FinalsOnly ==
    (Handled /\ HasFinal(lastEvent)) =>
        OriginalField = JoinFrom(lastEvent.results, lastEvent.resultIndex + 1, TRUE)

\* C7: after an event with no final entry in range, the original field is the
\* concatenation of the interim entries in range (empty for an empty range).
C7_InterimsWhenNoFinal ==
    (Handled /\ ~HasFinal(lastEvent)) =>
        OriginalField = JoinFrom(lastEvent.results, lastEvent.resultIndex + 1, FALSE)

\* The last event had no final entry, one entry before resultIndex and one
\* interim entry in range, and only the entry in range is shown.
C7_Witness ==
    /\ Handled /\ ~HasFinal(lastEvent)
    /\ lastEvent.resultIndex = 1
    /\ Len(lastEvent.results) = 2
    /\ lastEvent.results[1].transcript = <<"a">>
    /\ lastEvent.results[2].transcript = <<Blank>>
    /\ OriginalField = <<Blank>>

\* C8: a recognition event issues one correction request carrying its display
\* text when that text is non-empty, and none when it is empty.
C8_RequestIffNonEmpty ==
    [][Result =>
          IF OriginalField' # <<>>
          THEN corrections' = Append(corrections,
                                     [text |-> OriginalField', state |-> "inflight"])
          ELSE corrections' = corrections]_vars

CorrectionFailed ==
    \E i \in DOMAIN corrections :
        corrections[i].state = "inflight" /\ corrections'[i].state = "failed"

ShowsCorrectionError ==
    page = "app" /\ correctedText # <<>> /\ correctedText[1].kind = "grammarError"

\* C9: when a correction request fails the corrected field shows the error
\* marker, and no request is issued by the failure.
C9_FailureShowsMarker ==
    [][CorrectionFailed =>
          ShowsCorrectionError' /\ Len(corrections') = Len(corrections)]_vars

\* The analysis labels the page shows, in the order they were added.
AnalysisLabels == SelectSeq(correctedText, LAMBDA part : part.kind = "emotion")

\* C10: applying the outcome of a correction request leaves the original
\* field and the analysis labels already shown as they were.
C10_CorrectionKeepsLabel ==
    [][CorrectDone =>
          OriginalField' = OriginalField /\ AnalysisLabels' = AnalysisLabels]_vars


IsAnalysisPart(part) == part.kind \in {"emotion", "emotionFailed"}

\* C11: applying the outcome of an analysis request leaves the original field
\* and what the corrected field shows as they were, and adds one analysis
\* part (the label or the failure marker) after it.
C11_AnalysisIsAppended ==
    [][EmotionDone =>
          /\ OriginalField' = OriginalField
          /\ Len(correctedText') = Len(correctedText) + 1
          /\ SubSeq(correctedText', 1, Len(correctedText)) = correctedText
          /\ IsAnalysisPart(correctedText'[Len(correctedText')])
          /\ UNCHANGED <<corrected, confidence>>]_vars

\* A correction response is shown with an emotion label after it.
C11_Witness ==
    /\ Len(correctedText) = 2
    /\ correctedText[1].kind = "corrected"
    /\ correctedText[2].kind = "emotion"
    /\ speechText # <<>>


\* C12: without the speech-recognition capability no session state is ever
\* entered: recognition never runs and is never marked as running, no
\* recorder is asked for or created, and no request is issued.
C12_NoSessionWithoutCapability ==
    ~supported =>
        /\ recognition = "idle"
        /\ ~recognizing
        /\ pendingMedia = 0
        /\ recorders = <<>> /\ mediaRecorder = 0
        /\ corrections = <<>>
        /\ emotions = <<>>

\* Every click of the run was made on a page without the capability.
C12_Witness == ~supported /\ inputs >= 2


\* The page shows something it did not show before.
PageChanged ==
    <<speechText, correctedText, original, corrected, confidence>>' #
        <<speechText, correctedText, original, corrected, confidence>>

\* C13: when device acquisition fails, no recorder is created and no analysis
\* request is issued, recognition is left as it is, and the failure is
\* reported on the page.
C13_AcquisitionFailure ==
    [][MediaRejected =>
          /\ UNCHANGED <<recorders, mediaRecorder, audioChunks, emotions>>
          /\ UNCHANGED <<recognition, corrections>>
          /\ PageChanged]_vars


\* The text the page's handler computes for an event.
DisplayText(ev) == IF page = "app" THEN AppTranscript(ev) ELSE ScriptDisplayText(ev)

\* C14: once an event has been handled, the original field is the display
\* text of the event handled last, whatever requests are in flight or have
\* completed since.
C14_OriginalIsLastEvent ==
    Handled => OriginalField = DisplayText(lastEvent)

\* Two events were handled, the first with other text than the second, and
\* a correction request has completed since.
C14_Witness ==
    /\ Handled
    /\ Len(corrections) >= 2
    /\ corrections[1].text # OriginalField
    /\ \E i \in DOMAIN corrections : corrections[i].state # "inflight"


\* No asynchronous work is pending.
Quiescent ==
    /\ pendingMedia = 0
    /\ \A r \in DOMAIN recorders : ~recorders[r].stopQueued
    /\ \A i \in DOMAIN corrections : corrections[i].state # "inflight"
    /\ \A i \in DOMAIN emotions : emotions[i].state # "inflight"

\* C15: once stop was clicked (the engine is stopping: a stop click came after
\* the last start click that took effect) and all pending work has completed,
\* no capture session is recording.
C15_StoppedMeansNoRecording ==
    (page = "app" /\ recognition = "stopping" /\ Quiescent) =>
        \A r \in DOMAIN recorders : ~Recording(r)


Alternates(calls) ==
    \A k \in DOMAIN calls : calls[k] = IF k % 2 = 1 THEN "start" ELSE "stop"

\* A call by its method, whether or not it threw.
Method(call) == IF call = "stop" THEN "stop" ELSE "start"

C17_SameResponse ==
    page = "script" =>
        /\ corrected = confidence
        /\ corrected # 0 =>
               /\ corrected \in DOMAIN corrections
               /\ corrections[corrected].state = "ok"

\* Two responses have arrived out of order, the older one last, and a third
\* request is still in flight: both fields show the older response.
C17_Witness ==
    /\ page = "script"
    /\ Len(corrections) = 3
    /\ corrections[1].state = "ok"
    /\ corrections[2].state = "ok"
    /\ corrections[3].state = "inflight"
    /\ corrected = 1
    /\ confidence = 1

====
